---- MODULE Spec2Model ----
(***************************************************************************)
(* R2D2Agent / R2D2Net of pyhanabi/r2d2_beliefmodule.py as a state machine.*)
(*                                                                         *)
(* Tensors are functions over their index sets.  Real numbers are modelled *)
(* as (finite) integers; quantities that pass through the mean of _duel    *)
(* are kept in units of 1/NumAction so that the mean is exact.  The neural *)
(* networks are black boxes: their outputs are a fixed function Net of the *)
(* parameter set and of the input they are evaluated on.  The agent is in  *)
(* independent mode (vdn = False, which act asserts).                      *)
(***************************************************************************)
EXTENDS Integers, FiniteSets, Sequences, TLC

\* ---- bounds of the model ------------------------------------------------
BatchSize == 2
MaxSeqLen == 3
NumAction == 3
MaxParam == 1
MaxVal == 1

\* ---- constants of the program -------------------------------------------
HandSize == 5
NumCards == 25
StartToken == 26
SentinelA == 26
SentinelB == 27
TrgVocab == 28

Batch == 0..(BatchSize - 1)
Time == 0..(MaxSeqLen - 1)
Action == 0..(NumAction - 1)
Slot == 0..(HandSize - 1)
Params == 0..MaxParam
Vals == (0 - MaxVal)..MaxVal
Tokens == 0..(TrgVocab - 1)
Gammas == {1, 2}

VARIABLES
    online_net,        \* parameters of self.online_net
    target_net,        \* parameters of self.target_net
    uniform_priority,  \* self.uniform_priority
    multi_step,        \* self.multi_step
    gamma,             \* self.gamma
    pc,                \* "idle", or the call in progress: "act" and "td" (in
                       \* the decoding loop), "act_forward", "td_forward"
    j,                 \* the hand slot the decoding loop is at
    targets,           \* running target sequences, [batch][0..HandSize]
    temp,              \* the last categorical draw, [batch]
    priv_s,            \* act: hand block of the flattened priv_s, [batch][slot]
    obs_priv_s,        \* td_error: hand block of obs["priv_s"], [t][batch][slot]
    seq_len,           \* td_error: true length of each trajectory
    ret,               \* what the last call returned (or how it ended)
    fn                 \* pure-function harness: arguments and result

vars == <<online_net, target_net, uniform_priority, multi_step, gamma, pc, j,
          targets, temp, priv_s, obs_priv_s, seq_len, ret, fn>>

agent == <<online_net, target_net, uniform_priority, multi_step, gamma>>
decoder == <<j, targets, temp>>

\* ---- small helpers -------------------------------------------------------
RECURSIVE SumOver(_, _)
SumOver(f, S) ==
    IF S = {} THEN 0
    ELSE LET x == CHOOSE y \in S : TRUE IN f[x] + SumOver(f, S \ {x})

Abs(x) == IF x < 0 THEN 0 - x ELSE x

RECURSIVE Pow(_, _)
Pow(b, e) == IF e = 0 THEN 1 ELSE b * Pow(b, e - 1)

MinOf(S) == CHOOSE x \in S : \A y \in S : x <= y
MaxOf(S) == CHOOSE x \in S : \A y \in S : x >= y

\* ---- belief decoding (shared shape of act and td_error) ------------------
\* targets = 26 + zeros((bs, 6))
InitTargets == [b \in Batch |-> [k \in 0..HandSize |-> StartToken]]
\* temp = zeros((bs))
InitTemp == [b \in Batch |-> 0]

\* A hand block: per slot 0 when its 25 entries are all zero, 1 when some
\* entry is positive (entries of an observation are never negative).
ZeroHand == [b \in Batch |-> [s \in Slot |-> 0]]
ZeroObsHand == [t \in Time |-> ZeroHand]

\* (a variant that tests the first element of the batch only)
HandAssertFirstElement(h) == SumOver(h[0], Slot) = 0

\* torch.all(0 == torch.sum(priv_s[:, :, 0:125], -1))
HandAssert(h) == \A b \in Batch : SumOver(h[b], Slot) = 0
ObsHandAssert(h) == \A t \in Time : HandAssert(h[t])

\* (variants: only the second reserved token is tested; only the first
\* element of the batch is tested)
AcceptedOneSentinel(d) == ~ \E b \in Batch : d[b] = SentinelB
AcceptedFirstElement(d) == d[0] # SentinelA /\ d[0] # SentinelB

\* not torch.any(temp == 26) and not torch.any(temp == 27)
Accepted(d) ==
    /\ ~ \E b \in Batch : d[b] = SentinelA
    /\ ~ \E b \in Batch : d[b] = SentinelB

\* The categorical draws that are enumerated (softmax gives every one of the
\* 28 tokens a positive probability): all elements draw card 24; element 0
\* draws token 25; the last element draws 26; element 0 draws 27.
DrawSamples ==
    { [b \in Batch |-> NumCards - 1],
      [b \in Batch |-> IF b = 0 THEN NumCards ELSE NumCards - 1],
      [b \in Batch |-> IF b = BatchSize - 1 THEN SentinelA ELSE NumCards - 1],
      [b \in Batch |-> IF b = 0 THEN SentinelB ELSE NumCards - 1] }

\* targets[:, j+1] = temp.reshape(bs)
SetColumn(tg, k, d) == [b \in Batch |-> [tg[b] EXCEPT ![k] = d[b]]]

\* act: priv_s[:, 25*j:25*(j+1)] = j_card_dist[:, 0:25]
WriteSlot(h, k) == [b \in Batch |-> [h[b] EXCEPT ![k] = 1]]

\* td_error: for i in range(bs): priv_s[0:seq_len[i], i, 25*j:25*(j+1)] = ...
WriteObsSlot(h, sl, k) ==
    [t \in Time |-> [b \in Batch |->
        IF t < sl[b] THEN [h[t][b] EXCEPT ![k] = 1] ELSE h[t][b]]]

\* ---- the value network -----------------------------------------------------
\* The outputs of the linear heads fc_v and fc_a of a network with parameters
\* theta on input x: some fixed function of both, with values of either sign.
NetV(theta, x) ==
    [t \in Time |-> [b \in Batch |-> ((theta + x + t + b) % 3) - 1]]
NetA(theta, x) ==
    [t \in Time |-> [b \in Batch |-> [i \in Action |->
        (((3 * theta + 2 * x + 1) * (i + 1) + t + 2 * b) % 5) - 2]]]

\* (a variant whose advantage stream is clamped at zero)
DuelClamped(v, a, legal_move) ==
    LET legal_a == [i \in Action |-> (IF a[i] < 0 THEN 0 ELSE a[i]) * legal_move[i]]
    IN  [i \in Action |->
            NumAction * v + NumAction * legal_a[i] - SumOver(legal_a, Action)]

\* R2D2Net._duel at one [t, b]: legal_a = a * legal_move;
\* q = v + legal_a - legal_a.mean(2).  The result is in units of 1/NumAction.
Duel(v, a, legal_move) ==
    LET legal_a == [i \in Action |-> a[i] * legal_move[i]]
    IN  [i \in Action |->
            NumAction * v + NumAction * legal_a[i] - SumOver(legal_a, Action)]

\* tensor.argmax over the action axis: the first index of a maximal entry
ArgMax(row) ==
    LET m == MaxOf({row[i] : i \in Action})
    IN  MinOf({i \in Action : row[i] = m})

\* (a variant without the 1)
ShiftMaskNoOne(x, lo, legal, unit) == (x - lo) * legal

\* (1 + x - x.min()) * legal_move, for x in units of 1/unit
ShiftMask(x, lo, legal, unit) == (unit + x - lo) * legal

\* R2D2Net.forward on [seq, batch]: q = _duel(v, a, legal_move),
\* qa = q.gather(2, action) and
\* greedy_action = ((1 + q - q.min()) * legal_move).argmax(2); q.min() is
\* the minimum of the whole tensor.  q and qa are in units of 1/NumAction.
ForwardGreedy(q, lo, legal_move) ==
    [t \in Time |-> [b \in Batch |->
        ArgMax([i \in Action |->
            ShiftMask(q[t][b][i], lo, legal_move[t][b][i], NumAction)])]]

ForwardOut(q, legal_move, action) ==
    [q |-> q,
     qa |-> [t \in Time |-> [b \in Batch |-> q[t][b][action[t][b]]]],
     greedy_action |->
        ForwardGreedy(q, MinOf({q[t][b][i] : t \in Time, b \in Batch, i \in Action}),
                      legal_move)]

Forward(v, a, legal_move, action) ==
    ForwardOut([t \in Time |-> [b \in Batch |->
                   Duel(v[t][b], a[t][b], legal_move[t][b])]],
               legal_move, action)

\* R2D2Agent.greedy_act on [batch]: legal_adv = (1 + adv - adv.min()) *
\* legal_move; adv.min() is the minimum over the whole batch.
GreedyAct(adv, legal_move) ==
    LET lo == MinOf({adv[b][i] : b \in Batch, i \in Action})
        legal_adv == [b \in Batch |-> [i \in Action |->
                         ShiftMask(adv[b][i], lo, legal_move[b][i], 1)]]
    IN  [b \in Batch |-> ArgMax(legal_adv[b])]

\* ---- the n-step TD error ---------------------------------------------------
\* torch.cat([target_qa[multi_step:], target_qa[:multi_step]], 0)
Roll(tq, m) == [t \in Time |-> tq[(t + m) % MaxSeqLen]]

\* (a variant that leaves the wrapped-around values in place)
ZeroTailNone(tq, m) == tq

\* target_qa[-multi_step:] = 0
ZeroTail(tq, m) ==
    [t \in Time |-> [b \in Batch |-> IF t >= MaxSeqLen - m THEN 0 ELSE tq[t][b]]]

\* target = reward + bootstrap * (gamma ** multi_step) * target_qa, in units
\* of 1/NumAction (target_qa already is)
Target(reward, bootstrap, g, m, tq) ==
    [t \in Time |-> [b \in Batch |->
        NumAction * reward[t][b] + bootstrap[t][b] * Pow(g, m) * tq[t][b]]]

\* (a variant that compares with <= )
MaskOffByOne(sl) == [t \in Time |-> [b \in Batch |-> IF t <= sl[b] THEN 1 ELSE 0]]

\* mask = (arange(max_seq_len).unsqueeze(1) < seq_len.unsqueeze(0)).float()
Mask(sl) == [t \in Time |-> [b \in Batch |-> IF t < sl[b] THEN 1 ELSE 0]]

\* err = (target - online_qa) * mask
Err(target, online_qa, mask) ==
    [t \in Time |-> [b \in Batch |-> (target[t][b] - online_qa[t][b]) * mask[t][b]]]

\* smooth_l1_loss(err, 0, reduction="none") of an error e / NumAction, in
\* units of 1 / (2 * NumAction^2): 0.5 x^2 if |x| < 1, |x| - 0.5 otherwise
SmoothL1(e) ==
    IF Abs(e) < NumAction THEN e * e
    ELSE 2 * NumAction * Abs(e) - NumAction * NumAction

\* (a variant without the absolute value)
PrioritySigned(err) == err

\* priority = err.abs()
Priority(err) == [t \in Time |-> [b \in Batch |-> Abs(err[t][b])]]

\* compute_priority: torch.ones((priv_s.size(0), priv_s.size(1)))
Ones == [t \in Time |-> [b \in Batch |-> 1]]

\* ---- inputs that are enumerated -------------------------------------------
NetInputs == {0, 1}

\* hand blocks on entry: all zero, or one slot of one element not zero
ActHandSamples ==
    {ZeroHand} \cup
    {[ZeroHand EXCEPT ![b][s] = 1] : b \in {0, BatchSize - 1}, s \in {0, HandSize - 1}}
TdHandSamples ==
    {ZeroObsHand} \cup
    {[ZeroObsHand EXCEPT ![t][BatchSize - 1][HandSize - 1] = 1] :
        t \in {0, MaxSeqLen - 1}}

\* true lengths: every trajectory full but the first
FullLen == [b \in Batch |-> MaxSeqLen]
SeqLenSamples ==
    {[b \in Batch |-> IF b = 0 THEN l ELSE MaxSeqLen] : l \in 1..MaxSeqLen}

\* legal-move rows
RowAll == [i \in Action |-> 1]
RowNone == [i \in Action |-> 0]
RowLast == [i \in Action |-> IF i = NumAction - 1 THEN 1 ELSE 0]
RowNotFirst == [i \in Action |-> IF i = 0 THEN 0 ELSE 1]
LegalSet(row) == {i \in Action : row[i] > 0}

ActLegalSamples ==
    {[b \in Batch |-> IF b = 0 THEN r ELSE RowAll] : r \in {RowAll, RowLast, RowNotFirst}}
    \cup {[b \in Batch |-> RowLast]}
    \cup {[b \in Batch |-> IF b = BatchSize - 1 THEN RowNone ELSE RowAll]}

\* epsilon and torch.rand, both in halves: eps in {0, 1/2, 1}, rand in {0, 1/2}
EpsSamples ==
    {[b \in Batch |-> e] : e \in {0, 1, 2}} \cup {[b \in Batch |-> IF b = 0 THEN 0 ELSE 2]}
RandSamples == {[b \in Batch |-> r] : r \in {0, 1}}

\* legal_move.multinomial(1): some legal move of each row (here the first of
\* every row, or the last of every row)
RandomActionSamples(legal_move) ==
    {[b \in Batch |-> MinOf(LegalSet(legal_move[b]))],
     [b \in Batch |-> MaxOf(LegalSet(legal_move[b]))]}

\* trajectories: the legal moves (real steps with every move legal, or with
\* one illegal move and no legal move on padding), the taken action, the
\* reward and the bootstrap flag
TdLegalSamples(sl) ==
    {[t \in Time |-> [b \in Batch |-> RowAll]],
     [t \in Time |-> [b \in Batch |-> [i \in Action |->
         IF t < sl[b] /\ i # (t + b) % NumAction THEN 1 ELSE 0]]]}
TdActionSample == [t \in Time |-> [b \in Batch |-> (t + b + 1) % NumAction]]
RewardSamples ==
    {[t \in Time |-> [b \in Batch |-> 1]],
     [t \in Time |-> [b \in Batch |-> (t + b) % 2]]}
BootstrapSamples(sl, m) ==
    {[t \in Time |-> [b \in Batch |-> 1]],
     [t \in Time |-> [b \in Batch |-> IF t + m < sl[b] THEN 1 ELSE 0]]}

\* ---- the agent --------------------------------------------------------------
Init ==
    /\ online_net \in 1..MaxParam
    /\ target_net = 0
    /\ uniform_priority \in BOOLEAN
    /\ multi_step \in 1..(MaxSeqLen - 1)
    /\ gamma \in Gammas
    /\ pc = "idle"
    /\ j = 0
    /\ targets = InitTargets
    /\ temp = InitTemp
    /\ priv_s = ZeroHand
    /\ obs_priv_s = ZeroObsHand
    /\ seq_len = FullLen
    /\ ret = [op |-> "none", status |-> "ok"]
    /\ fn = [op |-> "none"]

\* R2D2Agent.act, up to the decoding loop: the observation arrives, the hand
\* block is asserted to be zero, the decoder state is initialised.  (The
\* caller holds one observation at a time: the replay batch of an earlier
\* loss call is gone, as is the actor's observation when loss is called.)
ActEnter(h) ==
    /\ pc = "idle"
    /\ priv_s' = h
    /\ IF HandAssert(h)
       THEN /\ pc' = "act"
            /\ ret' = [op |-> "act", status |-> "running"]
       ELSE /\ pc' = "idle"
            /\ ret' = [op |-> "act", status |-> "AssertionError"]
    /\ j' = 0
    /\ targets' = InitTargets
    /\ temp' = InitTemp
    /\ obs_priv_s' = ZeroObsHand
    /\ seq_len' = FullLen
    /\ UNCHANGED <<agent, fn>>

\* One pass of the while loop of act at slot j: a batch draw; the loop is left
\* only by a draw without reserved token, which is appended and whose
\* distribution is written to the hand block.
ActDraw(d) ==
    /\ pc = "act"
    /\ j < HandSize
    /\ temp' = d
    /\ IF Accepted(d)
       THEN /\ targets' = SetColumn(targets, j + 1, d)
            /\ priv_s' = WriteSlot(priv_s, j)
            /\ j' = j + 1
       ELSE UNCHANGED <<targets, priv_s, j>>
    /\ UNCHANGED <<agent, pc, obs_priv_s, seq_len, ret, fn>>

ActDrawAccept == \E d \in DrawSamples : Accepted(d) /\ ActDraw(d)
ActDrawReject == \E d \in DrawSamples : ~Accepted(d) /\ ActDraw(d)

\* the for loop of act is left after slot 4; targets and temp are dead
ActLoopExit ==
    /\ pc = "act"
    /\ j = HandSize
    /\ pc' = "act_forward"
    /\ j' = 0
    /\ targets' = InitTargets
    /\ temp' = InitTemp
    /\ UNCHANGED <<agent, priv_s, obs_priv_s, seq_len, ret, fn>>

\* (a variant that compares with <= )
ExploreLeq(rand, eps) == [b \in Batch |-> IF rand[b] <= eps[b] THEN 1 ELSE 0]

\* rand = (torch.rand(...) < eps).long()
Explore(rand, eps) == [b \in Batch |-> IF rand[b] < eps[b] THEN 1 ELSE 0]

\* action = greedy_action * (1 - rand) + random_action * rand
EpsGreedy(greedy_action, random_action, explore) ==
    [b \in Batch |->
        greedy_action[b] * (1 - explore[b]) + random_action[b] * explore[b]]

\* the rest of act: greedy action, exploratory action, epsilon-greedy choice
ActFinish(x, legal_move, eps, rand, random_action) ==
    /\ pc = "act_forward"
    /\ LET adv == NetA(online_net, x)[0]
           greedy_action == GreedyAct(adv, legal_move)
           explore == Explore(rand, eps)
       IN  ret' = [op |-> "act", status |-> "ok",
                   a |-> EpsGreedy(greedy_action, random_action, explore),
                   greedy_a |-> greedy_action,
                   legal_move |-> legal_move, eps |-> eps, rand |-> explore,
                   random_action |-> random_action, adv |-> adv]
    /\ pc' = "idle"
    /\ UNCHANGED <<agent, decoder, priv_s, obs_priv_s, seq_len, fn>>

\* legal_move.multinomial(1) raises on a row without legal move
ActNoLegalMove(legal_move) ==
    /\ pc = "act_forward"
    /\ \E b \in Batch : LegalSet(legal_move[b]) = {}
    /\ ret' = [op |-> "act", status |-> "RuntimeError"]
    /\ pc' = "idle"
    /\ UNCHANGED <<agent, decoder, priv_s, obs_priv_s, seq_len, fn>>

ActReturn ==
    \E x \in NetInputs, legal_move \in ActLegalSamples, eps \in EpsSamples,
       rand \in RandSamples :
        IF \E b \in Batch : LegalSet(legal_move[b]) = {}
        THEN ActNoLegalMove(legal_move)
        ELSE \E random_action \in RandomActionSamples(legal_move) :
                 ActFinish(x, legal_move, eps, rand, random_action)

\* R2D2Agent.loss -> td_error, up to the decoding loop.  The batch is either
\* a new one or the one of the previous call.
TdEnter(h, sl) ==
    /\ pc = "idle"
    /\ obs_priv_s' = h
    /\ seq_len' = sl
    /\ IF ObsHandAssert(h)
       THEN /\ pc' = "td"
            /\ ret' = [op |-> "loss", status |-> "running"]
       ELSE /\ pc' = "idle"
            /\ ret' = [op |-> "loss", status |-> "AssertionError"]
    /\ j' = 0
    /\ targets' = InitTargets
    /\ temp' = InitTemp
    /\ priv_s' = ZeroHand
    /\ UNCHANGED <<agent, fn>>

\* One pass of the while loop of td_error at slot j.
TdDraw(d) ==
    /\ pc = "td"
    /\ j < HandSize
    /\ temp' = d
    /\ IF Accepted(d)
       THEN /\ targets' = SetColumn(targets, j + 1, d)
            /\ obs_priv_s' = WriteObsSlot(obs_priv_s, seq_len, j)
            /\ j' = j + 1
       ELSE UNCHANGED <<targets, obs_priv_s, j>>
    /\ UNCHANGED <<agent, pc, priv_s, seq_len, ret, fn>>

TdDrawAccept == \E d \in DrawSamples : Accepted(d) /\ TdDraw(d)
TdDrawReject == \E d \in DrawSamples : ~Accepted(d) /\ TdDraw(d)

\* The rest of td_error and of loss (pred_weight = 0): online and target
\* forward passes, n-step target, mask, error, smooth-L1 loss and priority.
\* Everything but reward, bootstrap and mask is in units of 1/NumAction.
LossPriority(err, uniform) == Priority(err)

\* the for loop of td_error is left after slot 4; targets and temp are dead
TdLoopExit ==
    /\ pc = "td"
    /\ j = HandSize
    /\ pc' = "td_forward"
    /\ j' = 0
    /\ targets' = InitTargets
    /\ temp' = InitTemp
    /\ UNCHANGED <<agent, priv_s, obs_priv_s, seq_len, ret, fn>>

LossOut(reward, bootstrap, online_qa, target_qa, target, err, uniform) ==
    [op |-> "loss", status |-> "ok",
     reward |-> reward, bootstrap |-> bootstrap,
     online_qa |-> online_qa, target_qa |-> target_qa,
     target |-> target, err |-> err,
     loss |-> [b \in Batch |-> SumOver([t \in Time |-> SmoothL1(err[t][b])], Time)],
     priority |-> LossPriority(err, uniform)]

TdError(reward, bootstrap, online_qa, target_qa, target, sl, uniform) ==
    LossOut(reward, bootstrap, online_qa, target_qa, target,
            Err(target, online_qa, Mask(sl)), uniform)

TdTarget(reward, bootstrap, online_qa, target_qa, g, m, sl, uniform) ==
    TdError(reward, bootstrap, online_qa, target_qa,
            Target(reward, bootstrap, g, m, ZeroTail(Roll(target_qa, m), m)),
            sl, uniform)

TdForward(online, tv, ta, legal_move, reward, bootstrap, g, m, sl, uniform) ==
    TdTarget(reward, bootstrap, online.qa,
             Forward(tv, ta, legal_move, online.greedy_action).qa,
             g, m, sl, uniform)

Loss(x, legal_move, action, reward, bootstrap) ==
    /\ pc = "td_forward"
    /\ ret' = TdForward(Forward(NetV(online_net, x), NetA(online_net, x),
                                legal_move, action),
                        NetV(target_net, x), NetA(target_net, x), legal_move,
                        reward, bootstrap, gamma, multi_step, seq_len,
                        uniform_priority)
    /\ pc' = "idle"
    /\ UNCHANGED <<agent, decoder, priv_s, obs_priv_s, seq_len, fn>>

LossReturn ==
    \E x \in NetInputs, legal_move \in TdLegalSamples(seq_len),
       reward \in RewardSamples, bootstrap \in BootstrapSamples(seq_len, multi_step) :
        Loss(x, legal_move, TdActionSample, reward, bootstrap)

\* R2D2Agent.compute_priority
ComputePriority ==
    /\ pc = "idle"
    /\ ret' = [op |-> "compute_priority", status |-> "ok", priority |-> Ones]
    /\ UNCHANGED <<agent, pc, decoder, priv_s, obs_priv_s, seq_len, fn>>

\* R2D2Agent.clone: a new agent with this agent's state dict loaded
Clone ==
    /\ pc = "idle"
    /\ ret' = [op |-> "clone", status |-> "ok",
               online_net |-> online_net, target_net |-> target_net,
               uniform_priority |-> uniform_priority,
               multi_step |-> multi_step, gamma |-> gamma]
    /\ UNCHANGED <<agent, pc, decoder, priv_s, obs_priv_s, seq_len, fn>>

\* (a variant that loads nothing)
LoadStateDictNothing(dst, src) == dst

\* R2D2Agent.sync_target_with_online: target_net.load_state_dict(online)
LoadStateDict(dst, src) == src

SyncTargetWithOnline ==
    /\ pc = "idle"
    /\ target_net' = LoadStateDict(target_net, online_net)
    /\ ret' = [op |-> "sync_target_with_online", status |-> "ok"]
    /\ UNCHANGED <<online_net, uniform_priority, multi_step, gamma, pc, decoder,
                   priv_s, obs_priv_s, seq_len, fn>>

Next ==
    \/ \E h \in ActHandSamples : ActEnter(h)
    \/ ActDrawAccept
    \/ ActDrawReject
    \/ ActLoopExit
    \/ ActReturn
    \/ \E h \in TdHandSamples \cup {obs_priv_s}, sl \in SeqLenSamples : TdEnter(h, sl)
    \/ TdDrawAccept
    \/ TdDrawReject
    \/ TdLoopExit
    \/ LossReturn
    \/ ComputePriority
    \/ Clone
    \/ SyncTargetWithOnline

Spec == Init /\ [][Next]_vars

\* The unbounded while loops end when a batch draw without reserved token
\* occurs; every token has a positive probability at every pass, so such a
\* draw occurs eventually (with probability one).
FairSpec ==
    /\ Init
    /\ [][Next]_vars
    /\ WF_vars(ActDrawAccept)
    /\ WF_vars(TdDrawAccept)

\* ---- the pure functions on enumerated arguments ------------------------------
\* advantage / value tensors whose row [0] (forward: [0, 0]) is arbitrary
\* and whose other rows are constant
AdvRows == [Action -> Vals]
LegalRows == [Action -> {0, 1}]
AddConst(a, c) == [i \in Action |-> a[i] + c]

FnInit ==
    /\ online_net = 1
    /\ target_net = 0
    /\ uniform_priority = FALSE
    /\ multi_step = 1
    /\ gamma = 1
    /\ pc = "idle"
    /\ j = 0
    /\ targets = InitTargets
    /\ temp = InitTemp
    /\ priv_s = ZeroHand
    /\ obs_priv_s = ZeroObsHand
    /\ seq_len = FullLen
    /\ ret = [op |-> "none", status |-> "ok"]
    /\ fn = [op |-> "none"]

\* R2D2Net._duel on (v, a) and on (v, a + c)
DuelCall ==
    /\ fn.op = "none"
    /\ \E v \in {0, MaxVal}, a \in AdvRows, legal_move \in LegalRows,
          c \in Vals \ {0} :
        fn' = [op |-> "_duel", v |-> v, a |-> a, legal_move |-> legal_move,
               c |-> c, q |-> Duel(v, a, legal_move),
               q_plus |-> Duel(v, AddConst(a, c), legal_move)]
    /\ UNCHANGED <<agent, pc, decoder, priv_s, obs_priv_s, seq_len, ret>>

\* R2D2Agent.greedy_act, given the advantages the network returns
GreedyActCall ==
    /\ fn.op = "none"
    /\ \E a0 \in AdvRows, c \in {0 - MaxVal, MaxVal}, l0 \in LegalRows,
          l1 \in {RowAll, RowNone} :
        LET adv == [b \in Batch |-> IF b = 0 THEN a0 ELSE [i \in Action |-> c]]
            legal_move == [b \in Batch |-> IF b = 0 THEN l0 ELSE l1]
        IN  fn' = [op |-> "greedy_act", adv |-> adv, legal_move |-> legal_move,
                   greedy_action |-> GreedyAct(adv, legal_move)]
    /\ UNCHANGED <<agent, pc, decoder, priv_s, obs_priv_s, seq_len, ret>>

\* R2D2Net.forward, given the outputs of fc_v and fc_a
ForwardCall ==
    /\ fn.op = "none"
    /\ \E a0 \in AdvRows, c \in {0 - MaxVal, MaxVal},
          l0 \in {RowAll, RowLast, RowNotFirst, RowNone}, l1 \in {RowAll, RowNone} :
        LET a == [t \in Time |-> [b \in Batch |->
                     IF t = 0 /\ b = 0 THEN a0 ELSE [i \in Action |-> c]]]
            v == [t \in Time |-> [b \in Batch |-> c * (t - b)]]
            legal_move == [t \in Time |-> [b \in Batch |->
                              IF t = 0 /\ b = 0 THEN l0 ELSE l1]]
            out == Forward(v, a, legal_move, TdActionSample)
        IN  fn' = [op |-> "forward", legal_move |-> legal_move,
                   q |-> out.q, qa |-> out.qa, greedy_action |-> out.greedy_action]
    /\ UNCHANGED <<agent, pc, decoder, priv_s, obs_priv_s, seq_len, ret>>

FnNext == DuelCall \/ GreedyActCall \/ ForwardCall

FnSpec == FnInit /\ [][FnNext]_vars

\* ---- properties ---------------------------------------------------------------
LossReturned == ret.op = "loss" /\ ret.status = "ok"
ActReturned == ret.op = "act" /\ ret.status = "ok"

\* C1: the error td_error returns is exactly 0 at every [t, b] with
\* seq_len[b] <= t < max_seq_len, and is target - online_Qa at every [t, b]
\* with t < seq_len[b] (a position is valid iff t < seq_len[b]).
C1_MaskedErrorIsZero ==
    LossReturned =>
        \A t \in Time, b \in Batch :
            /\ t >= seq_len[b] => ret.err[t][b] = 0
            /\ t < seq_len[b] =>
                   ret.err[t][b] = ret.target[t][b] - ret.online_qa[t][b]

\* a padded position whose unmasked difference is not zero, beside a valid
\* position with a non-zero error
C1_Witness ==
    /\ LossReturned
    /\ \E t \in Time, b \in Batch :
           t >= seq_len[b] /\ ret.target[t][b] # ret.online_qa[t][b]
    /\ \E t \in Time, b \in Batch : t < seq_len[b] /\ ret.err[t][b] # 0

\* the n-step return with the bootstrap term cut at position `cut - m`
NStepTarget(t, b, cut) ==
    IF t < cut - multi_step
    THEN NumAction * ret.reward[t][b]
         + ret.bootstrap[t][b] * Pow(gamma, multi_step)
           * ret.target_qa[t + multi_step][b]
    ELSE NumAction * ret.reward[t][b]

\* C2 as stated: with L = seq_len[b], target[t] is reward[t] + bootstrap[t] *
\* gamma^m * target_Qa[t+m] for t < L - m, and reward[t] for t >= L - m.
C2_TargetCutAtSeqLen ==
    LossReturned =>
        \A t \in Time, b \in Batch : ret.target[t][b] = NStepTarget(t, b, seq_len[b])

\* C2 as amended: the bootstrap term is cut at max_seq_len - m, whatever the
\* true length is: target[t] is reward[t] + bootstrap[t] * gamma^m *
\* target_Qa[t+m] for t < max_seq_len - m, and reward[t] for
\* t >= max_seq_len - m.
C2_TargetCutAtMaxSeqLen ==
    LossReturned =>
        \A t \in Time, b \in Batch : ret.target[t][b] = NStepTarget(t, b, MaxSeqLen)

\* a trajectory shorter than max_seq_len with a valid position between
\* L - m and max_seq_len - m whose target is not the reward alone, and a
\* position past max_seq_len - m whose bootstrap flag is set
C2_Witness ==
    /\ LossReturned
    /\ \E t \in Time, b \in Batch :
           /\ seq_len[b] - multi_step <= t
           /\ t < seq_len[b]
           /\ t < MaxSeqLen - multi_step
           /\ ret.target[t][b] # NumAction * ret.reward[t][b]
    /\ \E t \in Time, b \in Batch :
           /\ t >= MaxSeqLen - multi_step
           /\ ret.bootstrap[t][b] = 1
           /\ ret.target_qa[(t + multi_step) % MaxSeqLen][b] # 0
           /\ gamma > 1


InDecoding == pc \in {"act", "td"}

\* C3 as stated: every token accepted into the running target sequence, in
\* act and in td_error, for every batch element and slot, is below the number
\* of real card types (25).
C3_AcceptedBelowNumCards ==
    InDecoding =>
        \A b \in Batch, k \in 1..j : targets[b][k] < NumCards

\* C3 as amended: every accepted token is below 26, that is, it is neither
\* of the two reserved tokens 26 and 27 the loop tests for; token 25 of the
\* 28-token vocabulary can be accepted.
C3_AcceptedNotReserved ==
    InDecoding =>
        \A b \in Batch, k \in 1..j :
            targets[b][k] # SentinelA /\ targets[b][k] # SentinelB

\* td_error has accepted a token for every slot, among them a token 25 and a
\* card
C3_Witness ==
    /\ pc = "td"
    /\ j = HandSize
    /\ \E b \in Batch, k \in 1..HandSize : targets[b][k] = NumCards
    /\ \E b \in Batch, k \in 1..HandSize : targets[b][k] < NumCards

\* C4: for every example of the batch of act: epsilon 0 gives action =
\* greedy_action; epsilon 1 gives the exploratory candidate, which is a
\* legal move; for any epsilon the action is one of the two.
C4_EpsilonGreedy ==
    ActReturned =>
        \A b \in Batch :
            /\ ret.eps[b] = 0 => ret.a[b] = ret.greedy_a[b]
            /\ ret.eps[b] = 2 =>
                   /\ ret.a[b] = ret.random_action[b]
                   /\ ret.legal_move[b][ret.a[b]] = 1
            /\ ret.a[b] \in {ret.greedy_a[b], ret.random_action[b]}

\* one example with epsilon 0 and a random candidate other than the greedy
\* action, another with epsilon 1 whose action is not the greedy one
C4_Witness ==
    /\ ActReturned
    /\ \E b \in Batch :
           ret.eps[b] = 0 /\ ret.random_action[b] # ret.greedy_a[b]
    /\ \E b \in Batch : ret.eps[b] = 2 /\ ret.a[b] # ret.greedy_a[b]

\* C6 as stated: the priority loss returns is non-negative, is |td_error|
\* at each position when prioritisation is enabled, and is all ones when the
\* agent has uniform_priority set.
C6_PriorityFollowsFlag ==
    LossReturned =>
        \A t \in Time, b \in Batch :
            /\ ret.priority[t][b] >= 0
            /\ ~uniform_priority => ret.priority[t][b] = Abs(ret.err[t][b])
            /\ uniform_priority => ret.priority[t][b] = 1

\* C6 as amended: the priority loss returns is non-negative and is
\* |td_error| at each position whether uniform_priority is set or not; the
\* tensor of ones is what compute_priority returns, whether it is set or not.
C6_PriorityIsAbsError ==
    /\ LossReturned =>
           \A t \in Time, b \in Batch :
               /\ ret.priority[t][b] >= 0
               /\ ret.priority[t][b] = Abs(ret.err[t][b])
    /\ ret.op = "compute_priority" =>
           \A t \in Time, b \in Batch : ret.priority[t][b] = 1

\* loss has returned on an agent with uniform_priority set, with a negative
\* error somewhere and a priority other than 1 somewhere
C6_Witness ==
    /\ LossReturned
    /\ uniform_priority
    /\ \E t \in Time, b \in Batch : ret.err[t][b] < 0
    /\ \E t \in Time, b \in Batch : ret.priority[t][b] # 1

\* C7: the target parameters change only in sync_target_with_online, which
\* makes them equal to the online parameters; no call changes the online
\* parameters.
C7_ParametersFrame ==
    [][ /\ online_net' = online_net
        /\ target_net' # target_net =>
               /\ pc = "idle"
               /\ ret'.op = "sync_target_with_online"
        /\ (ret'.op = "sync_target_with_online" /\ ret' # ret) =>
               target_net' = online_net ]_vars

\* the target network was synchronised, then act and loss have run
C7_Witness ==
    /\ target_net = online_net
    /\ LossReturned

C5_DuelShiftInvariant ==
    fn.op = "_duel" =>
        LET legal == LegalSet(fn.legal_move)
            k == Cardinality(legal)
        IN  k >= 1 =>
                \A i \in legal :
                    k * fn.q[i] - SumOver(fn.q, legal)
                    = k * fn.q_plus[i] - SumOver(fn.q_plus, legal)

\* some but not all actions legal, Q changed by the constant, and a legal
\* action whose Q is not the legal mean
C5_Witness ==
    /\ fn.op = "_duel"
    /\ LET legal == LegalSet(fn.legal_move)
           k == Cardinality(legal)
       IN  /\ 1 < k
           /\ k < NumAction
           /\ \E i \in legal : fn.q[i] # fn.q_plus[i]
           /\ \E i \in legal : k * fn.q[i] # SumOver(fn.q, legal)
           /\ \E i \in legal : fn.a[i] < 0

\* whether g is a legal entry of maximal value among the legal entries
LegalMax(x, legal_move, g) ==
    /\ legal_move[g] = 1
    /\ \A i \in LegalSet(legal_move) : x[i] <= x[g]

\* C8: for every example with at least one legal action, the greedy action
\* of greedy_act (from advantages) and of R2D2Net.forward (from Q-values) is
\* a legal action of maximal advantage / Q of that example.
C8_GreedyIsLegalMax ==
    /\ fn.op = "greedy_act" =>
           \A b \in Batch :
               LegalSet(fn.legal_move[b]) # {} =>
                   LegalMax(fn.adv[b], fn.legal_move[b], fn.greedy_action[b])
    /\ fn.op = "forward" =>
           \A t \in Time, b \in Batch :
               LegalSet(fn.legal_move[t][b]) # {} =>
                   LegalMax(fn.q[t][b], fn.legal_move[t][b], fn.greedy_action[t][b])

\* greedy_act on an example without positive advantage, whose single legal
\* action has a negative advantage, the minimum of the batch, and comes
\* after an illegal action of larger advantage
C8_Witness ==
    /\ fn.op = "greedy_act"
    /\ \A i \in Action : fn.adv[0][i] <= 0
    /\ \A i \in LegalSet(fn.legal_move[0]) : fn.adv[0][i] < 0
    /\ Cardinality(LegalSet(fn.legal_move[0])) = 1
    /\ \E i \in Action :
           /\ fn.legal_move[0][i] = 0
           /\ i < fn.greedy_action[0]
           /\ fn.adv[0][i] > fn.adv[0][fn.greedy_action[0]]
    /\ \A b \in Batch, i \in Action :
           fn.adv[0][fn.greedy_action[0]] <= fn.adv[b][i]

\* whether a batch draw holds one of the two reserved tokens
HitsSentinel(d) == \E b \in Batch : d[b] \in {SentinelA, SentinelB}

\* what a step of the decoding loop may do, and where the loop may be left
DecodingStep ==
    /\ (InDecoding /\ pc' = pc) =>
           /\ j' \in {j, j + 1}
           /\ HitsSentinel(temp') => (targets' = targets /\ j' = j)
           /\ j' = j => targets' = targets
           /\ j' = j + 1 =>
                  /\ ~HitsSentinel(temp')
                  /\ \A b \in Batch, k \in 0..HandSize :
                         targets'[b][k] =
                             IF k = j + 1 THEN temp'[b] ELSE targets[b][k]
    /\ (InDecoding /\ pc' # pc) => j = HandSize

\* C10: decoding takes the slots in order 0..4; a draw in which any batch
\* element hits a reserved token changes neither the target sequences nor
\* the slot; the slot advances by one exactly when a draw free of reserved
\* tokens is appended at column j+1; the loop is left at slot 5 only; and,
\* sentinel-free draws being fair, every decoding reaches slot 5, with
\* hand_size accepted tokens per batch element.
C10_DecodingTerminates ==
    /\ [][DecodingStep]_vars
    /\ (InDecoding ~> (InDecoding /\ j = HandSize))

\* the last slot is being decoded, four tokens are accepted and the draw
\* just made was rejected because of its last batch element alone
C10_Witness ==
    /\ pc = "act"
    /\ j = HandSize - 1
    /\ HitsSentinel(temp)
    /\ temp[0] < NumCards
    /\ \A b \in Batch, k \in 1..HandSize :
           (k <= j) = (targets[b][k] # StartToken)

\* the step a loss call on the batch of the previous, successful loss call
\* takes when it enters td_error
RepeatedLossStep ==
    /\ LossReturned
    /\ ret'.op = "loss"
    /\ obs_priv_s' = obs_priv_s

\* C11: td_error (and so loss) leaves the batch of the caller unchanged:
\* when loss has returned, the hand block of obs["priv_s"] is all zero at
\* every timestep, and a loss call repeated on the same batch does not fail
\* the assertion on the hand block.
C11_BatchUnchanged ==
    [][/\ LossReturned' => obs_priv_s' = ZeroObsHand
       /\ RepeatedLossStep => ret'.status # "AssertionError"]_vars

\* a loss call repeated on the batch of the previous call has ended with the
\* assertion error: the hand block holds the beliefs the previous call wrote
\* at the real timesteps, and is zero at the padding step of trajectory 0
C11_Witness ==
    /\ ret.op = "loss"
    /\ ret.status = "AssertionError"
    /\ pc = "idle"
    /\ \A b \in Batch, s \in Slot : obs_priv_s[0][b][s] = 1
    /\ \A s \in Slot : obs_priv_s[MaxSeqLen - 1][0][s] = 0
    /\ \A s \in Slot : obs_priv_s[MaxSeqLen - 1][BatchSize - 1][s] = 1
====
